---- MODULE Spec2Model ----
(***************************************************************************)
(* jsmn-go: a single-pass JSON tokenizer writing into a fixed-capacity     *)
(* token array, and its chunked parallel driver.                           *)
(*                                                                         *)
(* The repository holds two variants of the tokenizer:                     *)
(*   - src/unnamed/part_000    (overflow check, ':' is a pure skip,        *)
(*                              unclosed containers are an error,          *)
(*                              ParseParallel falls back below 512 bytes)  *)
(*   - src/jsmn-go/jsmn.go     (no overflow check, ':' moves the cursor to *)
(*                              the last token, unclosed containers are    *)
(*                              auto-closed, ParseParallel always chunks)  *)
(* Spec / SpecPar model the first, SpecLegacy / SpecParLegacy the second.  *)
(***************************************************************************)
EXTENDS Integers, Sequences, FiniteSets, TLC

VARIABLES
    numTokens,  \* the capacity the Parser was created with
    p,          \* the Parser: [pos, toknext, toksuper, tokens]
    json,       \* the buffer handed to Parse
    units,      \* the lexical units of the buffer in order of appearance, when the
                \* buffer was written out from a JSON value; <<"?">> for raw bytes
    pc,         \* position of the Parse call: "idle", "loop", "done", "panic"
    ret,        \* what Parse returned: [n, err]
    \* ParseParallel
    numCPU,     \* runtime.NumCPU()
    numWorkers, \* local of ParseParallel
    chunkSize,  \* local of ParseParallel
    spawned,    \* the loop variable i of the loop that starts the goroutines
    wg,         \* the WaitGroup's counter
    results,    \* results[i]: the token slice worker i stored (nil until then)
    errs,       \* the buffered channel of errors, capacity numWorkers
    wpc,        \* wpc[i]: position of goroutine i
    wlocal,     \* wlocal[i]: what p.Parse(chunk) gave goroutine i: [tokens, err]
    ppc,        \* position of the ParseParallel call: "idle", "spawn", "select",
                \* "done", "panic"
    ppRet       \* what ParseParallel returned: [tokens, err]

seqvars == <<p, units, pc, ret>>
parvars == <<numCPU, numWorkers, chunkSize, spawned, wg, results, errs, wpc, wlocal,
             ppc, ppRet>>
vars == <<numTokens, json, seqvars, parvars>>
args == <<numTokens, json, units, parvars>>

(***************************************************************************)
(* Bounds of the model.                                                    *)
(***************************************************************************)
MaxLen == 4     \* every byte string up to this length is scanned
MaxCap == 3     \* numTokens ranges over 0..MaxCap, and the capacity of the tests
MaxDepth == 1   \* nesting depth of the generated JSON values

(***************************************************************************)
(* Bytes.  One representative of every class the scanner distinguishes,    *)
(* plus the letters and digits of the buffers in the tests.                *)
(***************************************************************************)
Quote == "\""
Backslash == "\\"
WhitespaceNoSpace == {"\t", "\r", "\n"}     \* the whitespace case without ' '
Whitespace == {"\t", "\r", "\n", " "}
PrimitiveDelims == {" ", "\t", "\n", "\r", ",", "]", "}"}
Alphabet == {"{", "}", "[", "]", Quote, Backslash, ":", ",", " ", "a"}

NoError == "nil"
ErrOverflow == "token overflow: too many tokens"
ErrUnclosedString == "unclosed string"
ErrEmptyPrimitive == "empty primitive"
ErrUnclosedContainer == "unclosed object or array"

ContainerTypes == {"Object", "Array"}

\* json[i] with Go's 0-based index
At(j, i) == j[i + 1]

\* The zero value of Token: TokenType's zero value is Object (iota = 0).
ZeroToken == [Type |-> "Object", Start |-> 0, End |-> 0, Size |-> 0, ParentIdx |-> 0]

NewParser(n) ==
    [pos |-> 0, toknext |-> 0, toksuper |-> 0,
     tokens |-> [i \in 0 .. n - 1 |-> ZeroToken]]

Capacity(q) == Cardinality(DOMAIN q.tokens)

\* p.tokens[:p.toknext], as a sequence
Tokens(q) == [i \in 1 .. q.toknext |-> q.tokens[i - 1]]

(***************************************************************************)
(* The methods of Parser.  Each takes the parser q (and the buffer j) and  *)
(* yields the parser after the call and the returned error.                *)
(***************************************************************************)
allocToken(q, tok) ==
    IF q.toknext >= Capacity(q)
    THEN [p |-> q, err |-> ErrOverflow]
    ELSE LET t1 == [q.tokens EXCEPT ![q.toknext] = tok]
             t2 == IF q.toksuper # -1
                   THEN [t1 EXCEPT ![q.toksuper].Size = @ + 1]
                   ELSE t1
         IN [p |-> [q EXCEPT !.tokens = t2, !.toknext = @ + 1], err |-> NoError]

\* stringStep with a backslash taken as a byte like any other.
stringStepNoEscape(j, st) ==
    IF st.closed \/ st.pos >= Len(j)
    THEN st
    ELSE IF At(j, st.pos) = Quote
         THEN [st EXCEPT !.closed = TRUE]
         ELSE [st EXCEPT !.pos = @ + 1]

\* One turn of the loop of parseString, on the position alone: closed is set
\* when the byte at pos is the closing quote.
stringStep(j, st) ==
    IF st.closed \/ st.pos >= Len(j)
    THEN st
    ELSE LET c == At(j, st.pos) IN
         IF c = Quote
         THEN [st EXCEPT !.closed = TRUE]
         ELSE IF c = Backslash /\ st.pos + 1 < Len(j)
              THEN [st EXCEPT !.pos = @ + 2]
              ELSE [st EXCEPT !.pos = @ + 1]

\* n turns of that loop (a turn after the loop has ended changes nothing).
RECURSIVE stringSteps(_, _, _)
stringSteps(j, st, n) ==
    IF n = 0 THEN st
    ELSE IF n = 1 THEN stringStep(j, st)
    ELSE LET half == stringSteps(j, st, n \div 2) IN
         IF half.closed THEN half ELSE stringSteps(j, half, n - n \div 2)

\* The loop of parseString run to its end: every turn advances pos or closes,
\* so Len(j) turns are enough.
stringLoop(j, pos) == stringSteps(j, [pos |-> pos, closed |-> FALSE], Len(j))

\* parseString with the token built before the opening quote is skipped.
parseStringStartAtQuote(q, j) ==
    LET q1 == [q EXCEPT !.pos = @ + 1]
        tok == [Type |-> "String", Start |-> q.pos, End |-> -1, Size |-> 0,
                ParentIdx |-> q1.toksuper]
        st == stringLoop(j, q1.pos)
        q2 == [q1 EXCEPT !.pos = st.pos]
    IN IF st.closed
       THEN LET r == allocToken(q2, [tok EXCEPT !.End = q2.pos]) IN
            IF r.err # NoError
            THEN r
            ELSE [p |-> [r.p EXCEPT !.pos = @ + 1], err |-> NoError]
       ELSE [p |-> q2, err |-> ErrUnclosedString]

parseString(q, j) ==
    LET q1 == [q EXCEPT !.pos = @ + 1]
        tok == [Type |-> "String", Start |-> q1.pos, End |-> -1, Size |-> 0,
                ParentIdx |-> q1.toksuper]
        st == stringLoop(j, q1.pos)
        q2 == [q1 EXCEPT !.pos = st.pos]
    IN IF st.closed
       THEN LET r == allocToken(q2, [tok EXCEPT !.End = q2.pos]) IN
            IF r.err # NoError
            THEN r
            ELSE [p |-> [r.p EXCEPT !.pos = @ + 1], err |-> NoError]
       ELSE [p |-> q2, err |-> ErrUnclosedString]

\* primitiveEnd with ',' left out of the delimiters.
primitiveEndNoComma(j, i) ==
    LET D == {k \in i .. Len(j) - 1 : At(j, k) \in PrimitiveDelims \ {","}} IN
    IF D = {} THEN (IF i > Len(j) THEN i ELSE Len(j))
    ELSE CHOOSE k \in D : \A m \in D : k <= m

\* The loop of parsePrimitive: the first delimiter at or after i, or the end.
primitiveEnd(j, i) ==
    LET D == {k \in i .. Len(j) - 1 : At(j, k) \in PrimitiveDelims} IN
    IF D = {} THEN (IF i > Len(j) THEN i ELSE Len(j))
    ELSE CHOOSE k \in D : \A m \in D : k <= m

parsePrimitive(q, j) ==
    LET q1 == [q EXCEPT !.pos = primitiveEnd(j, q.pos)]
        tok == [Type |-> "Primitive", Start |-> q.pos, End |-> q1.pos, Size |-> 0,
                ParentIdx |-> q.toksuper]
    IN IF tok.End = tok.Start
       THEN [p |-> q1, err |-> ErrEmptyPrimitive]
       ELSE allocToken(q1, tok)

\* case '{', '[':
openContainer(q, j) ==
    LET tok == [Type |-> IF At(j, q.pos) = "{" THEN "Object" ELSE "Array",
                Start |-> q.pos, End |-> -1, Size |-> 0, ParentIdx |-> q.toksuper]
        r == allocToken(q, tok)
    IN IF r.err # NoError
       THEN r
       ELSE [p |-> [r.p EXCEPT !.toksuper = r.p.toknext - 1, !.pos = @ + 1],
             err |-> NoError]

\* case '}', ']' without the p.pos++ that ends it.
closeContainerNoAdvance(q, j) ==
    LET q1 == IF q.toksuper # -1
              THEN [q EXCEPT !.tokens[q.toksuper].End = q.pos + 1,
                             !.toksuper = q.tokens[q.toksuper].ParentIdx]
              ELSE q
    IN [p |-> q1, err |-> NoError]

\* case '}', ']':
closeContainer(q, j) ==
    LET q1 == IF q.toksuper # -1
              THEN [q EXCEPT !.tokens[q.toksuper].End = q.pos + 1,
                             !.toksuper = q.tokens[q.toksuper].ParentIdx]
              ELSE q
    IN [p |-> [q1 EXCEPT !.pos = @ + 1], err |-> NoError]

\* case '\t', '\r', '\n', ' ':
skipWhitespace(q, j) == [p |-> [q EXCEPT !.pos = @ + 1], err |-> NoError]

\* case ':':
scanColon(q, j) == [p |-> [q EXCEPT !.pos = @ + 1], err |-> NoError]

\* case ',':
scanComma(q, j) ==
    LET q1 == IF /\ q.toksuper # -1
                 /\ q.tokens[q.toksuper].Type # "Array"
                 /\ q.tokens[q.toksuper].Type # "Object"
              THEN [q EXCEPT !.toksuper = q.tokens[q.toksuper].ParentIdx]
              ELSE q
    IN [p |-> [q1 EXCEPT !.pos = @ + 1], err |-> NoError]

\* The reset without p.toknext = 0.
resetParserKeepNext(q) == [q EXCEPT !.pos = 0, !.toksuper = -1]

\* The first three statements of Parse.
resetParser(q) == [q EXCEPT !.pos = 0, !.toknext = 0, !.toksuper = -1]

\* The loop after the scan, over the whole token array.
closeUnset(q, j) ==
    [q EXCEPT !.tokens = [i \in DOMAIN q.tokens |->
        IF q.tokens[i].End = -1 /\ q.tokens[i].Start # -1
        THEN [q.tokens[i] EXCEPT !.End = Len(j)]
        ELSE q.tokens[i]]]

\* What follows the scan loop: normalisation, the unclosed check, the result.
parseTail(q, j) ==
    LET q1 == closeUnset(q, j) IN
    IF q1.toksuper # -1
    THEN [p |-> q1, n |-> 0, err |-> ErrUnclosedContainer]
    ELSE [p |-> q1, n |-> q1.toknext, err |-> NoError]

\* One turn of the switch on json[p.pos].
dispatch(q, j) ==
    LET c == At(j, q.pos) IN
    CASE c \in {"{", "["} -> openContainer(q, j)
      [] c \in {"}", "]"} -> closeContainer(q, j)
      [] c = Quote        -> parseString(q, j)
      [] c \in Whitespace -> skipWhitespace(q, j)
      [] c = ":"          -> scanColon(q, j)
      [] c = ","          -> scanComma(q, j)
      [] OTHER            -> parsePrimitive(q, j)

\* One turn of the loop of Parse on r = [p, err]; nothing once the loop has ended.
parseTurn(j, r) ==
    IF r.err # NoError \/ r.p.pos >= Len(j) THEN r ELSE dispatch(r.p, j)

RECURSIVE parseTurns(_, _, _)
parseTurns(j, r, n) ==
    IF n = 0 THEN r
    ELSE IF n = 1 THEN parseTurn(j, r)
    ELSE LET half == parseTurns(j, r, n \div 2) IN
         IF half.err # NoError THEN half ELSE parseTurns(j, half, n - n \div 2)

\* The loop of Parse run to its end (every turn advances pos, so Len(j) turns are
\* enough), and what follows it.
parseLoop(q, j) ==
    LET r == parseTurns(j, [p |-> q, err |-> NoError], Len(j)) IN
    IF r.err # NoError
    THEN [p |-> r.p, n |-> 0, err |-> r.err]
    ELSE parseTail(r.p, j)

\* Parser.Parse as a function: the parser after the call, the count, the error.
Parse(q, j) == parseLoop(resetParser(q), j)

(***************************************************************************)
(* The variant of src/jsmn-go/jsmn.go.  closeContainer, skipWhitespace,    *)
(* scanComma, resetParser, closeUnset, stringLoop and primitiveEnd are the *)
(* same code in both files and are shared.                                 *)
(***************************************************************************)
ErrPanic == "panic: index out of range"

\* No capacity check: the write p.tokens[p.toknext] panics when the array is full.
allocTokenLegacy(q, tok) ==
    IF q.toknext \notin DOMAIN q.tokens
    THEN [p |-> q, err |-> ErrPanic]
    ELSE LET t1 == [q.tokens EXCEPT ![q.toknext] = tok]
             t2 == IF q.toksuper # -1
                   THEN [t1 EXCEPT ![q.toksuper].Size = @ + 1]
                   ELSE t1
         IN [p |-> [q EXCEPT !.tokens = t2, !.toknext = @ + 1], err |-> NoError]

parseStringLegacy(q, j) ==
    LET q1 == [q EXCEPT !.pos = @ + 1]
        tok == [Type |-> "String", Start |-> q1.pos, End |-> -1, Size |-> 0,
                ParentIdx |-> q1.toksuper]
        st == stringLoop(j, q1.pos)
        q2 == [q1 EXCEPT !.pos = st.pos]
    IN IF st.closed
       THEN LET r == allocTokenLegacy(q2, [tok EXCEPT !.End = q2.pos]) IN
            IF r.err # NoError
            THEN r
            ELSE [p |-> [r.p EXCEPT !.pos = @ + 1], err |-> NoError]
       ELSE [p |-> q2, err |-> ErrUnclosedString]

\* No empty-primitive check.
parsePrimitiveLegacy(q, j) ==
    LET q1 == [q EXCEPT !.pos = primitiveEnd(j, q.pos)]
        tok == [Type |-> "Primitive", Start |-> q.pos, End |-> q1.pos, Size |-> 0,
                ParentIdx |-> q.toksuper]
    IN allocTokenLegacy(q1, tok)

openContainerLegacy(q, j) ==
    LET tok == [Type |-> IF At(j, q.pos) = "{" THEN "Object" ELSE "Array",
                Start |-> q.pos, End |-> -1, Size |-> 0, ParentIdx |-> q.toksuper]
        r == allocTokenLegacy(q, tok)
    IN IF r.err # NoError
       THEN r
       ELSE [p |-> [r.p EXCEPT !.toksuper = r.p.toknext - 1, !.pos = @ + 1],
             err |-> NoError]

\* case ':': the cursor moves to the token allocated last.
scanColonLegacy(q, j) ==
    [p |-> [q EXCEPT !.toksuper = q.toknext - 1, !.pos = @ + 1], err |-> NoError]

\* No unclosed check after the normalisation.
parseTailLegacy(q, j) ==
    LET q1 == closeUnset(q, j) IN
    [p |-> q1, n |-> q1.toknext, err |-> NoError]

dispatchLegacy(q, j) ==
    LET c == At(j, q.pos) IN
    CASE c \in {"{", "["} -> openContainerLegacy(q, j)
      [] c \in {"}", "]"} -> closeContainer(q, j)
      [] c = Quote        -> parseStringLegacy(q, j)
      [] c \in Whitespace -> skipWhitespace(q, j)
      [] c = ":"          -> scanColonLegacy(q, j)
      [] c = ","          -> scanComma(q, j)
      [] OTHER            -> parsePrimitiveLegacy(q, j)

parseTurnLegacy(j, r) ==
    IF r.err # NoError \/ r.p.pos >= Len(j) THEN r ELSE dispatchLegacy(r.p, j)

RECURSIVE parseTurnsLegacy(_, _, _)
parseTurnsLegacy(j, r, n) ==
    IF n = 0 THEN r
    ELSE IF n = 1 THEN parseTurnLegacy(j, r)
    ELSE LET half == parseTurnsLegacy(j, r, n \div 2) IN
         IF half.err # NoError THEN half ELSE parseTurnsLegacy(j, half, n - n \div 2)

parseLoopLegacy(q, j) ==
    LET r == parseTurnsLegacy(j, [p |-> q, err |-> NoError], Len(j)) IN
    IF r.err # NoError
    THEN [p |-> r.p, n |-> 0, err |-> r.err]
    ELSE parseTailLegacy(r.p, j)

ParseLegacy(q, j) == parseLoopLegacy(resetParser(q), j)

(***************************************************************************)
(* Inputs.                                                                 *)
(***************************************************************************)
ByteStrings == UNION {[1 .. n -> Alphabet] : n \in 0 .. MaxLen}

Unknown == <<"?">>

\* JSON values written out as bytes, each with its lexical units in order.
Doc(text, us) == [text |-> text, units |-> us]

Scalars ==
    { Doc(<<"a">>, <<"Primitive">>),
      Doc(<<Quote, Quote>>, <<"String">>),
      Doc(<<Quote, Backslash, Quote, "]", Quote>>, <<"String">>) }

Key == Doc(<<Quote, "a", Quote>>, <<"String">>)

ArrayOf(items) ==
    CASE Len(items) = 0 -> Doc(<<"[", "]">>, <<"Array">>)
      [] Len(items) = 1 -> Doc(<<"[">> \o items[1].text \o <<"]">>,
                               <<"Array">> \o items[1].units)
      [] OTHER -> Doc(<<"[">> \o items[1].text \o <<",">> \o items[2].text \o <<"]">>,
                      <<"Array">> \o items[1].units \o items[2].units)

Member(v) == Doc(Key.text \o <<":">> \o v.text, Key.units \o v.units)

ObjectOf(items) ==
    CASE Len(items) = 0 -> Doc(<<"{", "}">>, <<"Object">>)
      [] Len(items) = 1 -> Doc(<<"{">> \o Member(items[1]).text \o <<"}">>,
                               <<"Object">> \o Member(items[1]).units)
      [] OTHER -> Doc(<<"{">> \o Member(items[1]).text \o <<",">>
                          \o Member(items[2]).text \o <<"}">>,
                      <<"Object">> \o Member(items[1]).units \o Member(items[2]).units)

RECURSIVE Values(_)
Values(d) ==
    IF d = 0
    THEN Scalars
    ELSE LET V == Values(d - 1)
             Lists == {<<>>} \cup {<<v>> : v \in V} \cup {<<v, w>> : v \in V, w \in V}
         IN Scalars \cup {ArrayOf(l) : l \in Lists} \cup {ObjectOf(l) : l \in Lists}

WellFormed == Values(MaxDepth)

\* The buffers of the tests and of the examples.
TestParseJson == <<"{", Quote, "k", "e", "y", Quote, ":", " ", Quote, "v", "a", "l", "u", "e", Quote, ",", " ", Quote, "a", "r", "r", Quote, ":", " ", "[", "1", ",", " ", "2", ",", " ", "3", "]", "}">>
TestParseStreamJson == <<"{", Quote, "k", "e", "y", Quote, ":", " ", Quote, "v", "a", "l", "u", "e", Quote, "}">>
UnclosedObjectJson == <<"{", Quote, "a", Quote, ":", "1">>
UnterminatedJson == <<Quote, "u", "n", "t", "e", "r", "m", "i", "n", "a", "t", "e", "d">>

TestCap == 10

Examples ==
    { Doc(TestParseJson, <<"Object", "String", "String", "String", "Array",
                           "Primitive", "Primitive", "Primitive">>),
      Doc(TestParseStreamJson, <<"Object", "String", "String">>),
      Doc(UnclosedObjectJson, Unknown),
      Doc(UnterminatedJson, Unknown) }

Inputs == {Doc(b, Unknown) : b \in ByteStrings} \cup WellFormed \cup Examples

Caps == 0 .. MaxCap \cup {TestCap}

(***************************************************************************)
(* Spec: one Parser, one Parse call, a turn of the loop per step.          *)
(***************************************************************************)
NilSlice == <<>>    \* a nil []Token: no tokens

\* ParseParallel is not in use.
ParNotCalled ==
    /\ numCPU = 1 /\ numWorkers = 0 /\ chunkSize = 0 /\ spawned = 0 /\ wg = 0
    /\ results = <<>> /\ errs = <<>> /\ wpc = <<>> /\ wlocal = <<>>
    /\ ppc = "idle"
    /\ ppRet = [tokens |-> NilSlice, err |-> NoError]

Init ==
    /\ numTokens \in Caps
    /\ p = NewParser(numTokens)
    /\ json = <<>>
    /\ units = Unknown
    /\ pc = "idle"
    /\ ret = [n |-> 0, err |-> NoError]
    /\ ParNotCalled

\* Entry of Parse: the buffer is bound and the scanner state reset.
ParseCall ==
    /\ pc = "idle"
    /\ \E d \in Inputs : json' = d.text /\ units' = d.units
    /\ p' = resetParser(p)
    /\ pc' = "loop"
    /\ UNCHANGED <<numTokens, ret, parvars>>

\* The effect of one turn of the loop, given what its handler yields.
Turn(r) ==
    /\ p' = r.p
    /\ IF r.err # NoError
       THEN pc' = "done" /\ ret' = [n |-> 0, err |-> r.err]
       ELSE UNCHANGED <<pc, ret>>
    /\ UNCHANGED args

InLoop == pc = "loop" /\ p.pos < Len(json)

OpenContainer ==
    /\ InLoop /\ At(json, p.pos) \in {"{", "["}
    /\ Turn(openContainer(p, json))

CloseContainer ==
    /\ InLoop /\ At(json, p.pos) \in {"}", "]"}
    /\ Turn(closeContainer(p, json))

ScanString ==
    /\ InLoop /\ At(json, p.pos) = Quote
    /\ Turn(parseString(p, json))

SkipWhitespace ==
    /\ InLoop /\ At(json, p.pos) \in Whitespace
    /\ Turn(skipWhitespace(p, json))

ScanColon ==
    /\ InLoop /\ At(json, p.pos) = ":"
    /\ Turn(scanColon(p, json))

ScanComma ==
    /\ InLoop /\ At(json, p.pos) = ","
    /\ Turn(scanComma(p, json))

ScanPrimitive ==
    /\ InLoop
    /\ At(json, p.pos) \notin {"{", "[", "}", "]", Quote, ":", ","} \cup Whitespace
    /\ Turn(parsePrimitive(p, json))

\* The loop condition fails: normalise, check, return.
ParseReturn ==
    /\ pc = "loop" /\ p.pos >= Len(json)
    /\ LET r == parseTail(p, json) IN
         /\ p' = r.p
         /\ ret' = [n |-> r.n, err |-> r.err]
    /\ pc' = "done"
    /\ UNCHANGED args

Next ==
    \/ ParseCall
    \/ OpenContainer
    \/ CloseContainer
    \/ ScanString
    \/ SkipWhitespace
    \/ ScanColon
    \/ ScanComma
    \/ ScanPrimitive
    \/ ParseReturn

Spec == Init /\ [][Next]_vars

(***************************************************************************)
(* SpecReuse: one Parser, any number of Parse calls one after the other,   *)
(* as in BenchmarkParse.  The token array keeps what earlier calls wrote.  *)
(***************************************************************************)
MaxReuseLen == 1    \* every byte string up to this length is a buffer of a call

ReuseInputs ==
    {Doc(b, Unknown) : b \in UNION {[1 .. n -> Alphabet] : n \in 0 .. MaxReuseLen}}
        \cup Examples

\* Entry of Parse on a Parser that is new or has returned from a call.
ParseReuse ==
    /\ pc \in {"idle", "done"}
    /\ \E d \in ReuseInputs : json' = d.text /\ units' = d.units
    /\ p' = resetParser(p)
    /\ pc' = "loop"
    /\ UNCHANGED <<numTokens, ret, parvars>>

NextReuse ==
    \/ ParseReuse
    \/ OpenContainer
    \/ CloseContainer
    \/ ScanString
    \/ SkipWhitespace
    \/ ScanColon
    \/ ScanComma
    \/ ScanPrimitive
    \/ ParseReturn

SpecReuse == Init /\ [][NextReuse]_vars

(***************************************************************************)
(* SpecLegacy: the same call on the Parser of src/jsmn-go/jsmn.go.  A      *)
(* panic leaves Parse without a return value: pc = "panic".                *)
(***************************************************************************)
TurnLegacy(r) ==
    /\ p' = r.p
    /\ IF r.err = ErrPanic
       THEN pc' = "panic" /\ UNCHANGED ret
       ELSE IF r.err # NoError
            THEN pc' = "done" /\ ret' = [n |-> 0, err |-> r.err]
            ELSE UNCHANGED <<pc, ret>>
    /\ UNCHANGED args

LegacyOpenContainer ==
    /\ InLoop /\ At(json, p.pos) \in {"{", "["}
    /\ TurnLegacy(openContainerLegacy(p, json))

LegacyCloseContainer ==
    /\ InLoop /\ At(json, p.pos) \in {"}", "]"}
    /\ TurnLegacy(closeContainer(p, json))

LegacyScanString ==
    /\ InLoop /\ At(json, p.pos) = Quote
    /\ TurnLegacy(parseStringLegacy(p, json))

LegacySkipWhitespace ==
    /\ InLoop /\ At(json, p.pos) \in Whitespace
    /\ TurnLegacy(skipWhitespace(p, json))

LegacyScanColon ==
    /\ InLoop /\ At(json, p.pos) = ":"
    /\ TurnLegacy(scanColonLegacy(p, json))

LegacyScanComma ==
    /\ InLoop /\ At(json, p.pos) = ","
    /\ TurnLegacy(scanComma(p, json))

LegacyScanPrimitive ==
    /\ InLoop
    /\ At(json, p.pos) \notin {"{", "[", "}", "]", Quote, ":", ","} \cup Whitespace
    /\ TurnLegacy(parsePrimitiveLegacy(p, json))

LegacyParseReturn ==
    /\ pc = "loop" /\ p.pos >= Len(json)
    /\ LET r == parseTailLegacy(p, json) IN
         /\ p' = r.p
         /\ ret' = [n |-> r.n, err |-> r.err]
    /\ pc' = "done"
    /\ UNCHANGED args

NextLegacy ==
    \/ ParseCall
    \/ LegacyOpenContainer
    \/ LegacyCloseContainer
    \/ LegacyScanString
    \/ LegacySkipWhitespace
    \/ LegacyScanColon
    \/ LegacyScanComma
    \/ LegacyScanPrimitive
    \/ LegacyParseReturn

SpecLegacy == Init /\ [][NextLegacy]_vars

(***************************************************************************)
(* ParseParallel.                                                          *)
(***************************************************************************)
Threshold == 512
WorkerCap == 4
MaxCPU == 5         \* runtime.NumCPU() ranges over 1..MaxCPU
MaxParCap == 2      \* numTokens of ParseParallel ranges over 0..MaxParCap, and 10
MaxExtra == 1       \* long buffers have Threshold .. Threshold + MaxExtra bytes

\* json[a:b]
Slice(j, a, b) == SubSeq(j, a + 1, b)

\* numWorkers and chunkSize as ParseParallel computes them.
workerPlan(len, cpus) ==
    LET n0 == IF cpus > WorkerCap THEN WorkerCap ELSE cpus
        c0 == len \div n0
    IN IF c0 = 0
       THEN [numWorkers |-> 1, chunkSize |-> len]
       ELSE [numWorkers |-> n0, chunkSize |-> c0]

\* the end of the chunk of worker i without the last worker's remainder
chunkEndNoRemainder(i) == i * chunkSize + chunkSize

\* start and end of the chunk of worker i
chunkStart(i) == i * chunkSize
chunkEnd(i) == IF i = numWorkers - 1 THEN Len(json) ELSE chunkStart(i) + chunkSize

\* What a goroutine learns from its private Parser: the error, and Tokens().
workerScan(chunk, n) ==
    LET r == Parse(NewParser(n), chunk) IN
    [tokens |-> Tokens(r.p), err |-> r.err]

\* The capacity a goroutine gives its Parser.
workerCapacity == numTokens

\* The single scan below the threshold: (nil, err) or (p.Tokens(), nil).
singleScan(j, n) ==
    LET r == Parse(NewParser(n), j) IN
    IF r.err # NoError
    THEN [tokens |-> NilSlice, err |-> r.err]
    ELSE [tokens |-> Tokens(r.p), err |-> NoError]

RECURSIVE concat(_, _)
concat(rs, k) == IF k > Len(rs) THEN <<>> ELSE rs[k] \o concat(rs, k + 1)

\* The merge loop run from the last slot to the first.
mergeReversed(rs) == concat([k \in 1 .. Len(rs) |-> rs[Len(rs) + 1 - k]], 1)

\* The merge loop: append every results[i] in index order.
merge(rs) == concat(rs, 1)

\* Long buffers: four blocks, each a short word padded out with one filler byte.
Words == {<<"a", ",">>, <<"{">>, <<Quote>>}
Fillers == {" ", "a"}
Pad(w, f, n) == [k \in 1 .. n |-> IF k <= Len(w) THEN w[k] ELSE f]
Quarter == Threshold \div 4
LongBuffers ==
    {Pad(w[1], f, Quarter) \o Pad(w[2], f, Quarter) \o Pad(w[3], f, Quarter)
        \o Pad(w[4], f, Quarter + x) :
        w \in [1 .. 4 -> Words], f \in Fillers, x \in 0 .. MaxExtra}

ShortBuffers ==
    UNION {[1 .. n -> Alphabet] : n \in 0 .. MaxLen - 2}
        \cup {d.text : d \in WellFormed \cup Examples}

ParInputs == ShortBuffers \cup LongBuffers

ParCaps == 0 .. MaxParCap \cup {TestCap}

InitPar ==
    /\ numTokens \in ParCaps
    /\ numCPU \in 1 .. MaxCPU
    /\ json = <<>>
    /\ p = NewParser(0) /\ units = Unknown /\ pc = "idle"
    /\ ret = [n |-> 0, err |-> NoError]
    /\ numWorkers = 0 /\ chunkSize = 0 /\ spawned = 0 /\ wg = 0
    /\ results = <<>> /\ errs = <<>> /\ wpc = <<>> /\ wlocal = <<>>
    /\ ppc = "idle"
    /\ ppRet = [tokens |-> NilSlice, err |-> NoError]

\* The call with a buffer below the threshold: one scan, and the return.
ParseSmall ==
    /\ ppc = "idle"
    /\ \E j \in ParInputs :
         /\ Len(j) < Threshold
         /\ json' = j
         /\ ppRet' = singleScan(j, numTokens)
    /\ ppc' = "done"
    /\ UNCHANGED <<numTokens, seqvars, numCPU, numWorkers, chunkSize, spawned, wg,
                   results, errs, wpc, wlocal>>

\* The call with a longer buffer, up to the start of the loop.
startChunked(j) ==
    LET plan == workerPlan(Len(j), numCPU) IN
    /\ json' = j
    /\ numWorkers' = plan.numWorkers
    /\ chunkSize' = plan.chunkSize
    /\ results' = [k \in 1 .. plan.numWorkers |-> NilSlice]
    /\ errs' = <<>>
    /\ wg' = 0
    /\ spawned' = 0
    /\ wpc' = [k \in 0 .. plan.numWorkers - 1 |-> "unborn"]
    /\ wlocal' = [k \in 0 .. plan.numWorkers - 1 |-> [tokens |-> NilSlice, err |-> NoError]]
    /\ ppc' = "spawn"
    /\ UNCHANGED <<numTokens, seqvars, numCPU, ppRet>>

ParseChunked ==
    /\ ppc = "idle"
    /\ \E j \in ParInputs : Len(j) >= Threshold /\ startChunked(j)

\* One turn of the loop: wg.Add(1) and the go statement.  The goroutine's first
\* statements, NewParser and p.Parse(chunk), read the chunk bound here and write
\* only the goroutine's own Parser, so they are taken with the go statement.
Spawn ==
    /\ ppc = "spawn" /\ spawned < numWorkers
    /\ wg' = wg + 1
    /\ wlocal' = [wlocal EXCEPT ![spawned] =
          workerScan(Slice(json, chunkStart(spawned), chunkEnd(spawned)), workerCapacity)]
    /\ wpc' = [wpc EXCEPT ![spawned] = "report"]
    /\ spawned' = spawned + 1
    /\ UNCHANGED <<numTokens, json, seqvars, numCPU, numWorkers, chunkSize, results,
                   errs, ppc, ppRet>>

\* Goroutine i sending on a channel made with room for one error.
WorkerSendErrCapOne(i) ==
    /\ ppc # "panic" /\ wpc[i] = "report" /\ wlocal[i].err # NoError
    /\ Len(errs) < 1
    /\ errs' = Append(errs, wlocal[i].err)
    /\ wpc' = [wpc EXCEPT ![i] = "exit"]
    /\ UNCHANGED <<numTokens, json, seqvars, numCPU, numWorkers, chunkSize, spawned, wg,
                   results, wlocal, ppc, ppRet>>

\* Goroutine i: errs <- err, which waits while the channel is full.
WorkerSendErr(i) ==
    /\ ppc # "panic" /\ wpc[i] = "report" /\ wlocal[i].err # NoError
    /\ Len(errs) < numWorkers
    /\ errs' = Append(errs, wlocal[i].err)
    /\ wpc' = [wpc EXCEPT ![i] = "exit"]
    /\ UNCHANGED <<numTokens, json, seqvars, numCPU, numWorkers, chunkSize, spawned, wg,
                   results, wlocal, ppc, ppRet>>

\* Goroutine i storing into the first slot, whatever its index.
WorkerStoreShared(i) ==
    /\ ppc # "panic" /\ wpc[i] = "report" /\ wlocal[i].err = NoError
    /\ results' = [results EXCEPT ![1] = wlocal[i].tokens]
    /\ wpc' = [wpc EXCEPT ![i] = "exit"]
    /\ UNCHANGED <<numTokens, json, seqvars, numCPU, numWorkers, chunkSize, spawned, wg,
                   errs, wlocal, ppc, ppRet>>

\* Goroutine i: results[i] = p.Tokens()
WorkerStore(i) ==
    /\ ppc # "panic" /\ wpc[i] = "report" /\ wlocal[i].err = NoError
    /\ results' = [results EXCEPT ![i + 1] = wlocal[i].tokens]
    /\ wpc' = [wpc EXCEPT ![i] = "exit"]
    /\ UNCHANGED <<numTokens, json, seqvars, numCPU, numWorkers, chunkSize, spawned, wg,
                   errs, wlocal, ppc, ppRet>>

\* Goroutine i: the deferred wg.Done()
WorkerDone(i) ==
    /\ ppc # "panic" /\ wpc[i] = "exit"
    /\ wg' = wg - 1
    /\ wpc' = [wpc EXCEPT ![i] = "done"]
    /\ UNCHANGED <<numTokens, json, seqvars, numCPU, numWorkers, chunkSize, spawned,
                   results, errs, wlocal, ppc, ppRet>>

\* wg.Wait() that returns as soon as the loop is over.
waitReturnsEarly == spawned = numWorkers

\* wg.Wait() returns once the counter is zero.
waitReturns == spawned = numWorkers /\ wg = 0

Wait ==
    /\ ppc = "spawn" /\ waitReturns
    /\ ppc' = "select"
    /\ UNCHANGED <<numTokens, json, seqvars, numCPU, numWorkers, chunkSize, spawned, wg,
                   results, errs, wpc, wlocal, ppRet>>

\* select: an error is ready in the channel.
SelectErr ==
    /\ ppc = "select" /\ errs # <<>>
    /\ ppRet' = [tokens |-> NilSlice, err |-> Head(errs)]
    /\ errs' = Tail(errs)
    /\ ppc' = "done"
    /\ UNCHANGED <<numTokens, json, seqvars, numCPU, numWorkers, chunkSize, spawned, wg,
                   results, wpc, wlocal>>

\* select: default, then the merge and the return.
SelectDefault ==
    /\ ppc = "select" /\ errs = <<>>
    /\ ppRet' = [tokens |-> merge(results), err |-> NoError]
    /\ ppc' = "done"
    /\ UNCHANGED <<numTokens, json, seqvars, numCPU, numWorkers, chunkSize, spawned, wg,
                   results, errs, wpc, wlocal>>

NextPar ==
    \/ ParseSmall
    \/ ParseChunked
    \/ Spawn
    \/ \E i \in DOMAIN wpc : WorkerSendErr(i)
    \/ \E i \in DOMAIN wpc : WorkerStore(i)
    \/ \E i \in DOMAIN wpc : WorkerDone(i)
    \/ Wait
    \/ SelectErr
    \/ SelectDefault

SpecPar == InitPar /\ [][NextPar]_vars

\* The steps of goroutine i.
Worker(i) ==
    /\ i \in DOMAIN wpc
    /\ (WorkerSendErr(i) \/ WorkerStore(i) \/ WorkerDone(i))

\* The loop that starts the goroutines has a turn to take.
SpawnReady == ppc = "spawn" /\ spawned < numWorkers

\* The caller passes the capacity of the tests.
InitParFair == InitPar /\ numTokens = TestCap

\* SpecParFair: SpecPar with the scheduler's promise that a goroutine that can
\* run does run, for the caller's goroutine once the call is under way and for
\* every worker.  The condition on Spawn is WF_vars(Spawn) written with the
\* state predicate SpawnReady, which is what ENABLED <<Spawn>>_vars says.
SpecParFair ==
    /\ InitParFair
    /\ [][NextPar]_vars
    /\ ([]<>(~SpawnReady) \/ []<><<Spawn>>_vars)
    /\ WF_vars(Wait \/ SelectErr \/ SelectDefault)
    /\ \A i \in 0 .. WorkerCap - 1 : WF_vars(Worker(i))

(***************************************************************************)
(* SpecParLegacy: ParseParallel of src/jsmn-go/jsmn.go.  No threshold, and *)
(* each goroutine's Parser has room for numTokens / numWorkers tokens.     *)
(* The goroutines' statements after Parse, the wait, the select and the    *)
(* merge are the same code in both files and are shared.                   *)
(***************************************************************************)
workerScanLegacy(chunk, n) ==
    LET r == ParseLegacy(NewParser(n), chunk) IN
    [tokens |-> Tokens(r.p), err |-> r.err]

workerCapacityLegacy == numTokens \div numWorkers

\* One scan by the Parser of this file; a panic ends the program.
singleScanLegacy(j, n) ==
    LET r == ParseLegacy(NewParser(n), j) IN
    IF r.err # NoError
    THEN [tokens |-> NilSlice, err |-> r.err]
    ELSE [tokens |-> Tokens(r.p), err |-> NoError]

ParseChunkedLegacy ==
    /\ ppc = "idle"
    /\ \E j \in ShortBuffers : startChunked(j)

\* wg.Add(1), the go statement and the goroutine's own scan; a panic in the
\* goroutine ends the whole program.
SpawnLegacy ==
    /\ ppc = "spawn" /\ spawned < numWorkers
    /\ LET r == workerScanLegacy(Slice(json, chunkStart(spawned), chunkEnd(spawned)),
                                 workerCapacityLegacy)
       IN /\ wlocal' = [wlocal EXCEPT ![spawned] = r]
          /\ IF r.err = ErrPanic
             THEN ppc' = "panic" /\ wpc' = [wpc EXCEPT ![spawned] = "panic"]
             ELSE ppc' = ppc /\ wpc' = [wpc EXCEPT ![spawned] = "report"]
    /\ wg' = wg + 1
    /\ spawned' = spawned + 1
    /\ UNCHANGED <<numTokens, json, seqvars, numCPU, numWorkers, chunkSize, results,
                   errs, ppRet>>

NextParLegacy ==
    \/ ParseChunkedLegacy
    \/ SpawnLegacy
    \/ \E i \in DOMAIN wpc : WorkerSendErr(i)
    \/ \E i \in DOMAIN wpc : WorkerStore(i)
    \/ \E i \in DOMAIN wpc : WorkerDone(i)
    \/ Wait
    \/ SelectErr
    \/ SelectDefault

SpecParLegacy == InitPar /\ [][NextParLegacy]_vars

(***************************************************************************)
(* Properties of a Parse call.                                             *)
(***************************************************************************)
Success == pc = "done" /\ ret.err = NoError
Returned == 0 .. p.toknext - 1          \* the indices of Tokens()
IsContainer(i) == p.tokens[i].Type \in ContainerTypes

\* C1: after a successful Parse, every token whose ParentIdx is not -1 has a
\* parent at a smaller index, and that parent is an Object or an Array.
C1_ParentIsEarlierContainer ==
    Success =>
        \A i \in Returned :
            LET j == p.tokens[i].ParentIdx IN
            j # -1 => (0 <= j /\ j < i /\ IsContainer(j))

\* C2: after a successful Parse, the Size of every Object or Array equals the
\* number of returned tokens naming it as parent; String and Primitive have Size 0.
C2_SizeCountsChildren ==
    Success =>
        \A c \in Returned :
            IF IsContainer(c)
            THEN p.tokens[c].Size = Cardinality({i \in Returned : p.tokens[i].ParentIdx = c})
            ELSE p.tokens[c].Size = 0

\* A flat object: the buffer is an object written out with scalar members only.
FlatObject ==
    /\ units # Unknown
    /\ units[1] = "Object"
    /\ \A k \in 2 .. Len(units) : units[k] \in {"String", "Primitive"}

AtColon == pc = "loop" /\ p.pos < Len(json) /\ At(json, p.pos) = ":"

\* C3: scanning ':' advances pos by one and changes nothing else; so in an object
\* the key and its value are both children of the object, whose Size counts each
\* of them (2 for one key/value pair).
C3_ColonOnlyAdvances ==
    /\ [][AtColon => /\ p' = [p EXCEPT !.pos = @ + 1]
                     /\ UNCHANGED <<pc, ret, args>>]_vars
    /\ [](Success /\ FlatObject =>
            /\ p.toknext = Len(units)
            /\ p.tokens[0].Size = Len(units) - 1
            /\ \A i \in 1 .. p.toknext - 1 : p.tokens[i].ParentIdx = 0)

\* The number of tokens a buffer requires: the count of a scan with room for one
\* token per byte.
Required(j) == Parse(NewParser(Len(j)), j)

\* C4: a buffer that requires N tokens is scanned with success (count N) at
\* capacity N and fails with the overflow error at capacity N-1; the token array
\* keeps the length it was created with and toknext never passes it.
C4_CapacityBoundary ==
    /\ DOMAIN p.tokens = 0 .. numTokens - 1
    /\ p.toknext <= numTokens
    /\ pc \in {"done", "panic"} =>
          LET r == Required(json) IN
          r.err = NoError =>
              /\ numTokens = r.n =>
                    pc = "done" /\ ret = [n |-> r.n, err |-> NoError]
              /\ numTokens = r.n - 1 =>
                    pc = "done" /\ ret = [n |-> 0, err |-> ErrOverflow]

\* The scan has reached the end of the buffer with a container never closed.
EndWithOpenContainer ==
    /\ pc = "loop" /\ p.pos >= Len(json)
    /\ \E i \in Returned : IsContainer(i) /\ p.tokens[i].End = -1

\* C5: when the end of the buffer is reached with an Object or Array that no
\* closing bracket has closed, Parse returns the unclosed-container error.
C5_UnclosedContainerFails ==
    [][EndWithOpenContainer =>
          pc' = "done" /\ ret' = [n |-> 0, err |-> ErrUnclosedContainer]]_vars

\* C6: after a successful Parse every returned token has 0 <= Start <= End <= L
\* and End # -1; a String starts just after its opening quote and ends at its
\* closing quote.
C6_SpansWithinBuffer ==
    Success =>
        \A i \in Returned :
            LET t == p.tokens[i] IN
            /\ 0 <= t.Start /\ t.Start <= t.End /\ t.End <= Len(json)
            /\ t.End # -1
            /\ t.Type = "String" =>
                  /\ t.Start >= 1 /\ At(json, t.Start - 1) = Quote
                  /\ t.End < Len(json) /\ At(json, t.End) = Quote

\* C7: a well-formed buffer scanned with adequate capacity yields one token per
\* object, array, string and primitive, of that type and in order of appearance.
C7_OneTokenPerUnit ==
    (pc = "done" /\ units # Unknown /\ numTokens >= Len(units)) =>
        /\ ret = [n |-> Len(units), err |-> NoError]
        /\ \A k \in 1 .. Len(units) : p.tokens[k - 1].Type = units[k]

\* The length of the run of backslashes that ends just before offset e, within
\* the string that starts at offset s.
BackslashRun(j, s, e) ==
    CHOOSE k \in 0 .. e - s :
        /\ \A i \in 1 .. k : At(j, e - i) = Backslash
        /\ k = e - s \/ At(j, e - k - 1) # Backslash

\* The quotes that can end the string starting at s: preceded by an even run.
Closers(j, s) ==
    {e \in s .. Len(j) - 1 : At(j, e) = Quote /\ BackslashRun(j, s, e) % 2 = 0}

Min(S) == CHOOSE x \in S : \A y \in S : x <= y

AtQuote == pc = "loop" /\ p.pos < Len(json) /\ At(json, p.pos) = Quote

\* C8: a string ends at the first quote that is not the second byte of a
\* backslash pair; without one Parse returns the unclosed-string error and
\* allocates no token.
C8_StringScan ==
    [][AtQuote =>
        LET s == p.pos + 1
            C == Closers(json, s)
        IN IF C = {}
           THEN /\ pc' = "done"
                /\ ret' = [n |-> 0, err |-> ErrUnclosedString]
                /\ p'.toknext = p.toknext /\ p'.tokens = p.tokens
           ELSE IF p.toknext >= numTokens
                THEN pc' = "done" /\ ret' = [n |-> 0, err |-> ErrOverflow]
                ELSE /\ pc' = "loop"
                     /\ p'.pos = Min(C) + 1
                     /\ p'.toknext = p.toknext + 1
                     /\ p'.tokens[p.toknext] =
                           [Type |-> "String", Start |-> s, End |-> Min(C),
                            Size |-> 0, ParentIdx |-> p.toksuper]]_vars

\* Witness of C6: a successful scan returned a String with a non-empty span
\* inside a container.
C6_Witness ==
    /\ Success
    /\ \E i \in Returned :
          /\ p.tokens[i].Type = "String"
          /\ p.tokens[i].Start < p.tokens[i].End
          /\ p.tokens[i].ParentIdx # -1

\* Witness of C7: the buffer of TestParse was scanned and gave 8 tokens.
C7_Witness ==
    /\ pc = "done" /\ json = TestParseJson /\ numTokens = TestCap
    /\ ret = [n |-> 8, err |-> NoError]

\* Witness of C8: a string holding an escaped quote and ending in a lone
\* backslash was reported as unclosed.
C8_Witness ==
    /\ pc = "done" /\ ret.err = ErrUnclosedString
    /\ json = <<Quote, Backslash, Quote, Backslash>>

(***************************************************************************)
(* Properties of a ParseParallel call.                                     *)
(***************************************************************************)
\* How the call ended: what it returned, or the panic that ended the program.
ppOutcome ==
    IF ppc = "panic" THEN [tokens |-> NilSlice, err |-> ErrPanic] ELSE ppRet

\* C9: for a buffer shorter than the threshold, ParseParallel gives exactly what
\* one Parser of capacity numTokens gives for the whole buffer, whatever the
\* number of CPUs.
C9_SmallInputSingleScan ==
    (ppc \in {"done", "panic"} /\ Len(json) < Threshold) =>
        ppOutcome \in {singleScan(json, numTokens), singleScanLegacy(json, numTokens)}

\* The workers whose scan returned an error.
Failed == {k \in DOMAIN wlocal : wlocal[k].err # NoError}

\* C10: on the chunked path, if a worker's scan returned an error the call
\* returns an error some worker reported and no tokens; if none did, it returns
\* a nil error.
C10_FailFast ==
    (ppc = "done" /\ numWorkers > 0) =>
        IF Failed # {}
        THEN /\ ppRet.err \in {wlocal[k].err : k \in Failed}
             /\ ppRet.tokens = NilSlice
        ELSE ppRet.err = NoError

\* Witness of C10: one worker failed, another had stored tokens, and the call
\* returned the error alone.
C10_Witness ==
    /\ ppc = "done" /\ numWorkers > 1
    /\ Failed # {}
    /\ \E k \in DOMAIN wlocal : wlocal[k].err = NoError /\ results[k + 1] # NilSlice
    /\ ppRet.err # NoError /\ ppRet.tokens = NilSlice

\* The number of tokens produced by the workers 0 .. k-1.
RECURSIVE TokensBefore(_)
TokensBefore(k) == IF k = 0 THEN 0 ELSE TokensBefore(k - 1) + Len(wlocal[k - 1].tokens)

AllWorkersDone == \A i \in DOMAIN wpc : wpc[i] = "done"

\* C11: when every worker succeeds, ParseParallel returns the workers' token
\* slices one after the other in chunk index order, each token as its worker
\* produced it, whatever the order in which the workers ran; the results are
\* read only after every worker has finished.
C11_MergeInChunkOrder ==
    /\ (ppc \in {"select", "done"} /\ numWorkers > 0) => AllWorkersDone
    /\ (ppc = "done" /\ numWorkers > 0 /\ Failed = {}) =>
          /\ ppRet.err = NoError
          /\ Len(ppRet.tokens) = TokensBefore(numWorkers)
          /\ \A k \in 0 .. numWorkers - 1 :
                SubSeq(ppRet.tokens, TokensBefore(k) + 1, TokensBefore(k + 1))
                    = wlocal[k].tokens

\* Witness of C11: several workers succeeded with different token slices and
\* the call returned their tokens.
C11_Witness ==
    /\ ppc = "done" /\ numWorkers > 2 /\ Failed = {}
    /\ wlocal[0].tokens # wlocal[numWorkers - 1].tokens
    /\ Len(ppRet.tokens) > numWorkers

(***************************************************************************)
(* Errors.                                                                 *)
(***************************************************************************)
\* C12: after a Parse call that returned an error the count is 0 and Tokens()
\* is the empty slice, whatever the error and wherever in the scan it arose.
C12_ErrorExposesNoTokens ==
    (pc = "done" /\ ret.err # NoError) =>
        /\ ret.n = 0
        /\ Tokens(p) = <<>>

(***************************************************************************)
(* The cursor.                                                             *)
(***************************************************************************)
\* The tokens reached from token i by following ParentIdx up to -1.
RECURSIVE Chain(_)
Chain(i) ==
    IF i < 0 \/ i >= p.toknext THEN {} ELSE {i} \cup Chain(p.tokens[i].ParentIdx)

OpenContainers == {i \in Returned : IsContainer(i) /\ p.tokens[i].End = -1}

\* C13: during a scan toksuper is -1 or the index, below toknext, of an Object
\* or Array whose End is unset, and the containers whose End is unset are
\* exactly those on the ParentIdx chain from toksuper; the cursor is never on a
\* String or Primitive.
C13_CursorOnOpenContainer ==
    pc = "loop" =>
        /\ \/ p.toksuper = -1
           \/ /\ 0 <= p.toksuper /\ p.toksuper < p.toknext
              /\ IsContainer(p.toksuper)
              /\ p.tokens[p.toksuper].End = -1
        /\ OpenContainers = Chain(p.toksuper)

(***************************************************************************)
(* Termination.                                                            *)
(***************************************************************************)
\* C14: pos never exceeds the length of the buffer; a turn of the loop of Parse
\* either moves pos strictly forward or returns an error; and at pos equal to
\* the length the loop is over and Parse returns.  Len(json) - pos is then a
\* variant of the loop, so Parse terminates on every buffer.
C14_ParseTerminates ==
    /\ [](0 <= p.pos /\ p.pos <= Len(json))
    /\ [][pc = "loop" =>
            IF p.pos < Len(json)
            THEN \/ pc' = "loop" /\ p'.pos > p.pos
                 \/ pc' = "done" /\ ret'.err # NoError
            ELSE pc' = "done" /\ p.pos = Len(json)]_vars

\* Witness of C14: a scan of a buffer of full length went through a string, a
\* container and a primitive and came to the end of the buffer.
C14_Witness ==
    /\ pc = "loop" /\ Len(json) >= MaxLen /\ p.pos = Len(json)
    /\ \A ty \in {"String", "Array", "Primitive"} :
          \E i \in Returned : p.tokens[i].Type = ty

(***************************************************************************)
(* The chunks.                                                             *)
(***************************************************************************)
Chunked == ppc \in {"spawn", "select", "done"} /\ numWorkers > 0

\* The workers whose byte range holds offset b.
Owners(b) == {i \in 0 .. numWorkers - 1 : chunkStart(i) <= b /\ b < chunkEnd(i)}

\* C15: on the chunked path there are between 1 and 4 workers; their byte
\* ranges are non-empty, each starts where the one before ends, the first
\* starts at 0 and the last ends at the end of the buffer, so every byte of the
\* buffer lies in exactly one range.
C15_ChunksPartitionBuffer ==
    Chunked =>
        /\ Len(json) >= Threshold
        /\ 1 <= numWorkers /\ numWorkers <= 4
        /\ chunkStart(0) = 0
        /\ chunkEnd(numWorkers - 1) = Len(json)
        /\ \A i \in 0 .. numWorkers - 1 : chunkStart(i) < chunkEnd(i)
        /\ \A i \in 0 .. numWorkers - 2 : chunkEnd(i) = chunkStart(i + 1)
        /\ spawned = 0 => \A b \in 0 .. Len(json) - 1 : Cardinality(Owners(b)) = 1

\* Witness of C15: a buffer whose length is not a multiple of the number of
\* workers has been handed out; the last worker took the remainder.
C15_Witness ==
    /\ ppc = "spawn" /\ spawned = numWorkers /\ numWorkers > 1
    /\ Len(json) % numWorkers # 0
    /\ chunkEnd(numWorkers - 1) - chunkStart(numWorkers - 1) > chunkSize

(***************************************************************************)
(* The goroutines.                                                         *)
(***************************************************************************)
\* The goroutines started and not yet past wg.Done().
Running == {i \in DOMAIN wpc : wpc[i] \in {"report", "exit"}}

\* C16: a step of goroutine i leaves every other goroutine's position and
\* Parser result alone and writes no slot of results but slot i; a slot is
\* written only by its goroutine, and once; the WaitGroup counts the running
\* goroutines, and the driver's select and merge run only when all are done.
C16_WorkersShareNothing ==
    /\ [](Chunked => wg = Cardinality(Running))
    /\ [][(ppc = "select" /\ numWorkers > 0) =>
            AllWorkersDone /\ UNCHANGED <<results, wpc, wlocal>>]_vars
    /\ [][\A i \in DOMAIN wpc :
            wpc'[i] # wpc[i] =>
                /\ \A m \in DOMAIN wpc \ {i} :
                      wpc'[m] = wpc[m] /\ wlocal'[m] = wlocal[m]
                /\ \A k \in DOMAIN results \ {i + 1} : results'[k] = results[k]]_vars
    /\ [][\A k \in DOMAIN results :
            results'[k] # results[k] =>
                /\ results[k] = NilSlice
                /\ wpc[k - 1] = "report" /\ wpc'[k - 1] = "exit"]_vars

\* Witness of C16: a later goroutine has stored its tokens while an earlier
\* one, whose scan also succeeded, has yet to store.
C16_Witness ==
    /\ ppc = "spawn"
    /\ \E i, k \in DOMAIN wpc :
          /\ i < k
          /\ wpc[i] = "report" /\ wlocal[i].err = NoError /\ wlocal[i].tokens # NilSlice
          /\ wpc[k] = "exit" /\ results[k + 1] # NilSlice

(***************************************************************************)
(* Progress.                                                               *)
(***************************************************************************)
\* A goroutine is at errs <- err.
Sending(i) == wpc[i] = "report" /\ wlocal[i].err # NoError

\* C17: under fair scheduling a ParseParallel call that has started its
\* workers returns; a goroutine at errs <- err always finds room in the
\* channel, which never holds more than one error per worker.
C17_CallReturns ==
    /\ [](Len(errs) <= numWorkers)
    /\ [](\A i \in DOMAIN wpc : Sending(i) => Len(errs) < numWorkers)
    /\ (ppc = "spawn") ~> (ppc = "done")

\* Witness of C17: every one of several workers failed and sent its error, and
\* the call returned.
C17_Witness ==
    /\ ppc = "done" /\ numWorkers > 1
    /\ Failed = DOMAIN wlocal
    /\ Len(errs) = numWorkers - 1
    /\ ppRet.err # NoError

(***************************************************************************)
(* Reuse of a Parser.                                                      *)
(***************************************************************************)
\* C18: whatever calls came before on the same Parser, a Parse call returns the
\* count and error, and leaves the Tokens(), that a new Parser of the same
\* capacity gives for the same buffer.
C18_ParseResetsState ==
    pc = "done" =>
        LET fresh == Parse(NewParser(numTokens), json) IN
        /\ ret = [n |-> fresh.n, err |-> fresh.err]
        /\ Tokens(p) = Tokens(fresh.p)

\* Witness of C18: a call has returned with success while the token array still
\* holds, past its tokens, an unclosed container of an earlier call.
C18_Witness ==
    /\ Success /\ p.toknext >= 1
    /\ \E i \in DOMAIN p.tokens :
          /\ i >= p.toknext
          /\ p.tokens[i].Type = "Array" /\ p.tokens[i].Start > 0

(***************************************************************************)
(* Primitives.                                                             *)
(***************************************************************************)
\* The scan is about to hand the byte at pos to parsePrimitive.
AtPrimitive ==
    /\ pc = "loop" /\ p.pos < Len(json)
    /\ At(json, p.pos) \notin {"{", "[", "}", "]", Quote, ":", ","} \cup Whitespace

\* C19: every Primitive token has End > Start and Parse never returns the
\* empty-primitive error: parsePrimitive is entered only on a byte that is not
\* one of its delimiters, and a buffer made of one delimiter alone is scanned
\* without error.
C19_NoEmptyPrimitive ==
    /\ ret.err # ErrEmptyPrimitive
    /\ \A i \in Returned :
          p.tokens[i].Type = "Primitive" => p.tokens[i].End > p.tokens[i].Start
    /\ AtPrimitive => At(json, p.pos) \notin PrimitiveDelims
    /\ pc = "idle" =>
          \A c \in PrimitiveDelims : Parse(NewParser(1), <<c>>).err = NoError

\* Witness of C19: a scan returned a Primitive that a delimiter ended, after a
\* delimiter that stood where a value could start.
C19_Witness ==
    /\ Success /\ Len(json) >= 3
    /\ At(json, 0) \in PrimitiveDelims
    /\ \E i \in Returned :
          /\ p.tokens[i].Type = "Primitive"
          /\ p.tokens[i].End < Len(json)
          /\ At(json, p.tokens[i].End) \in PrimitiveDelims

(***************************************************************************)
(* The capacity of a ParseParallel call.                                   *)
(***************************************************************************)
\* C20: ParseParallel never returns more than numTokens tokens, and a buffer
\* that requires more than numTokens tokens fails with the overflow error, on
\* the chunked path as on the single scan.
C20_CapacityBoundsOutput ==
    ppc = "done" =>
        /\ Len(ppRet.tokens) <= numTokens
        /\ LET r == Required(json) IN
           (r.err = NoError /\ r.n > numTokens) => ppRet.err = ErrOverflow

====
